---- MODULE Spec2Model ----
(***************************************************************************)
(* Model of the retrieval-and-ranking core of Shrone_Agent:                *)
(*   - ingestion/chunk.py        token-window chunking of a list of blocks *)
(*   - document_retriever.py     vector search + merge, BM25/hybrid        *)
(*                               scoring, cross-encoder reranking and the  *)
(*                               retrieve_documents orchestration          *)
(*   - preprocessing_pipeline.py worker processes reserving chunks in the  *)
(*                               manifest and appending them to a          *)
(*                               folder's JSON file                        *)
(*   - answer_generator.py       generate_answer: citation validation and  *)
(*                               confidence of the returned answer         *)
(* Strings are sequences of one-character strings.  Scores are fixed-point *)
(* integers: vector_score in hundredths, bm25_score and rerank_score in    *)
(* thousandths, hybrid_score in millionths, so that the weights 0.7 and    *)
(* 0.3 and the boosts 1.2 and 1.1 are exact.                               *)
(***************************************************************************)
EXTENDS Integers, Sequences, FiniteSets, TLC

VARIABLES
    \* ---- ingestion/chunk.py ----
    blocks,          \* chunk_blocks parameter: the list of block dictionaries
    block_idx,       \* position of the for loop of chunk_blocks (1-based)
    block_text,      \* block['text'] of the block being chunked
    max_tokens,      \* chunk_blocks parameter
    overlap_tokens,  \* chunk_blocks parameter
    tokens,          \* tokenizer.encode(block_text)
    start_token,     \* loop variable of _chunk_single_block (0-based)
    chunks,          \* the list of chunk dictionaries built so far
    windows,         \* history: per chunk of the current block, its token
                     \* window and kept text
    c_pc,            \* position in chunk_blocks: "call" (at a block), "loop"
                     \* (in the while loop), "done" (returned), "idle"
    \* ---- document_retriever.py ----
    supabase,        \* TRUE when self.supabase is a client, FALSE when it is None
    query,           \* retrieve_documents parameter
    folders,         \* routing_result['selected_folders']
    store,           \* per folder, the stored items [chunk_id, similarity]
    k_candidates,    \* retrieve_documents parameter
    top_passages,    \* retrieve_documents parameter
    use_hybrid,      \* retrieve_documents parameter
    use_reranking,   \* retrieve_documents parameter
    r_pc,            \* position in retrieve_documents
    folder_idx,      \* loop index of vector_search_with_filter (1-based)
    candidates,      \* the candidate list
    top_chunks,      \* the list retrieve_documents returns
    outcome,         \* "running", "returned" or "raised"
    stages,          \* history: the stages invoked, in order
    failed_stage,    \* history: the stage that raised, or "none"
    rpc_failed,      \* history: the folders whose vector-store call raised
    model_scores,    \* history: the cross-encoder's score per passage text
    \* ---- preprocessing_pipeline.py ----
    w_file,          \* per worker process, the text hashes of its file's chunks
    w_idx,           \* per worker, position of the chunk loop (1-based)
    w_pc,            \* per worker, position in the loop body
    w_local,         \* per worker, `chunks` of append_chunk_json_per_folder
    manifest,        \* the chunks table: status per text_hash, or "absent"
    out_file,        \* the chunk records in the folder's JSON file
    true_returns,    \* history: per text_hash, try_reserve_chunk calls that
                     \* returned True
    false_returns,   \* history: per text_hash, calls that returned False
    writes,          \* history: per text_hash, the workers that wrote it
    \* ---- answer_generator.py ----
    passages,        \* what retrieve_documents returned to generate_answer
    raw_answer,      \* what the LLM call produced
    response,        \* the GeneratedAnswer returned
    a_pc             \* position in generate_answer

chunkVars == <<blocks, block_idx, block_text, max_tokens, overlap_tokens,
               tokens, start_token, chunks, windows, c_pc>>

callVars == <<supabase, query, folders, store, k_candidates, top_passages,
              use_hybrid, use_reranking>>

retrVars == <<callVars, r_pc, folder_idx, candidates, top_chunks, outcome,
              stages, failed_stage, rpc_failed, model_scores>>

workVars == <<w_file, w_idx, w_pc, w_local, manifest, out_file, true_returns,
              false_returns, writes>>

ansVars == <<passages, raw_answer, response, a_pc>>

vars == <<chunkVars, retrVars, workVars, ansVars>>

(***************************************************************************)
(* Bounds of the model.                                                    *)
(***************************************************************************)
MaxTextLen == 5
MaxTokens == 3
MaxItems == 1      \* items one folder holds
MaxK == 2          \* k_candidates
MaxTopK == 2       \* top_passages
MaxCand == 3       \* candidates handed to hybrid_search directly
MaxBlocks == 2     \* blocks handed to chunk_blocks in one call

(***************************************************************************)
(* Strings.                                                                *)
(***************************************************************************)
NL == "\n"
Whitespace == {NL, " "}
Letters == {"a"}
SentenceEnd == {".", "!", "?", ":"}
BulletChars == {"-", "*", "+"}

\* The characters block texts are drawn from.
ChunkAlphabet == {"a", ".", "-", NL}

StringsUpTo(alphabet, n) == UNION {[1..k -> alphabet] : k \in 0..n}

Max2(a, b) == IF a >= b THEN a ELSE b
Min2(a, b) == IF a <= b THEN a ELSE b

RECURSIVE LStrip(_)
LStrip(s) ==
    IF s # <<>> /\ Head(s) \in Whitespace THEN LStrip(Tail(s)) ELSE s

RECURSIVE RStrip(_)
RStrip(s) ==
    IF s # <<>> /\ s[Len(s)] \in Whitespace
    THEN RStrip(SubSeq(s, 1, Len(s) - 1)) ELSE s

\* str.strip()
Strip(s) == RStrip(LStrip(s))

\* str.split('\n'): the lines of s, always at least one
RECURSIVE SplitLines(_)
SplitLines(s) ==
    IF \A i \in 1..Len(s) : s[i] # NL THEN <<s>>
    ELSE LET p == CHOOSE i \in 1..Len(s) :
                      s[i] = NL /\ \A j \in 1..(i-1) : s[j] # NL
         IN  <<SubSeq(s, 1, p - 1)>> \o SplitLines(SubSeq(s, p + 1, Len(s)))

\* '\n'.join(lines)
RECURSIVE JoinLines(_)
JoinLines(lines) ==
    IF lines = <<>> THEN <<>>
    ELSE IF Len(lines) = 1 THEN lines[1]
    ELSE lines[1] \o <<NL>> \o JoinLines(Tail(lines))

\* line.endswith(('.', '!', '?', ':'))
EndsSentence(line) == line # <<>> /\ line[Len(line)] \in SentenceEnd

\* any(re.match(pattern, line) for pattern in bullet_patterns), for a stripped
\* line over ChunkAlphabet: a dash bullet, or a lettered list item "a."
\* (the alphabet has no digits, parentheses or typographic bullets)
IsBullet(line) ==
    /\ line # <<>>
    /\ \/ line[1] \in BulletChars
       \/ Len(line) >= 2 /\ line[1] \in Letters /\ line[2] = "."

(***************************************************************************)
(* The tokenizer handed to chunk_blocks: a greedy longest-match encoder    *)
(* over a vocabulary of single characters and a few two-character merges;  *)
(* a token is the character sequence it stands for.                        *)
(***************************************************************************)
Merges == {<<"a", "a">>, <<NL, NL>>, <<".", NL>>}

RECURSIVE encode(_)
encode(s) ==
    IF s = <<>> THEN <<>>
    ELSE IF Len(s) >= 2 /\ <<s[1], s[2]>> \in Merges
         THEN <<SubSeq(s, 1, 2)>> \o encode(SubSeq(s, 3, Len(s)))
         ELSE <<SubSeq(s, 1, 1)>> \o encode(Tail(s))

RECURSIVE decode(_)
decode(toks) ==
    IF toks = <<>> THEN <<>> ELSE Head(toks) \o decode(Tail(toks))

(***************************************************************************)
(* _adjust_chunk_boundary                                                  *)
(***************************************************************************)
LOOKBACK == 5

\* The body of the backward scan for 0-based line index i (i1 = i + 1), down
\* to the first index the range excludes.
RECURSIVE ScanBoundary(_, _, _, _)
ScanBoundary(chunk_text, lines, i1, stop1) ==
    IF i1 <= stop1 THEN chunk_text
    ELSE
      LET line == Strip(lines[i1])
          better1 == JoinLines(SubSeq(lines, 1, i1))
          prev_line == Strip(lines[i1 - 1])
          better2 == JoinLines(SubSeq(lines, 1, i1 - 1))
      IN  IF (line = <<>> \/ EndsSentence(line)) /\ Strip(better1) # <<>>
          THEN better1
          ELSE IF /\ IsBullet(line)
                  /\ i1 > 1
                  /\ prev_line # <<>>
                  /\ (EndsSentence(prev_line) \/ prev_line = <<>>)
                  /\ Strip(better2) # <<>>
               THEN better2
               ELSE ScanBoundary(chunk_text, lines, i1 - 1, stop1)

\* Mutant of adjust_chunk_boundary: the token-based cut is always kept.
NoAdjustment(chunk_text) == chunk_text

\* range(len(lines) - 1, max(0, len(lines) - 5), -1)
adjust_chunk_boundary(chunk_text) ==
    LET lines == SplitLines(chunk_text)
    IN  ScanBoundary(chunk_text, lines, Len(lines),
                     Max2(0, Len(lines) - LOOKBACK) + 1)

(***************************************************************************)
(* chunk_blocks / _chunk_single_block                                      *)
(***************************************************************************)
\* The retriever is not running.
RetrieverIdle ==
    /\ supabase = FALSE /\ query = <<>> /\ folders = <<>> /\ store = <<>>
    /\ k_candidates = 0 /\ top_passages = 0
    /\ use_hybrid = FALSE /\ use_reranking = FALSE
    /\ r_pc = "idle" /\ folder_idx = 0 /\ candidates = <<>>
    /\ top_chunks = <<>> /\ outcome = "running" /\ stages = <<>>
    /\ failed_stage = "none" /\ rpc_failed = {} /\ model_scores = <<>>

WorkersIdle ==
    /\ w_file = <<>> /\ w_idx = <<>> /\ w_pc = <<>> /\ w_local = <<>>
    /\ manifest = <<>> /\ out_file = <<>>
    /\ true_returns = <<>> /\ false_returns = <<>> /\ writes = <<>>

\* no LLM call made yet
NoAnswer == [raised |-> FALSE, segments |-> <<>>]

\* no GeneratedAnswer built yet
NoResponse ==
    [answer |-> "none", confidence |-> "none", citations |-> <<>>,
     has_valid_citations |-> FALSE]

AnswerIdle ==
    /\ passages = <<>> /\ raw_answer = NoAnswer /\ response = NoResponse
    /\ a_pc = "idle"

ValidParams == {p \in (1..MaxTokens) \X (0..MaxTokens) : p[2] < p[1]}

\* The page range and heading path a block carries.
BlockMetas ==
    {[page_start |-> 1, page_end |-> 1, heading_path |-> <<>>],
     [page_start |-> 2, page_end |-> 3, heading_path |-> <<"H">>]}

\* a block dictionary
Block(text, meta) ==
    [text |-> text, page_start |-> meta.page_start, page_end |-> meta.page_end,
     heading_path |-> meta.heading_path]

\* a chunk dictionary of _chunk_single_block
ChunkDict(block, text, token_count) ==
    [text |-> text, token_count |-> token_count,
     page_start |-> block.page_start, page_end |-> block.page_end,
     heading_path |-> block.heading_path]

\* chunk_blocks called with one block
ChunkInit ==
    /\ \E t \in StringsUpTo(ChunkAlphabet, MaxTextLen) : \E m \in BlockMetas :
           blocks = <<Block(t, m)>>
    /\ block_idx = 1
    /\ block_text = blocks[1].text
    /\ \E p \in ValidParams : max_tokens = p[1] /\ overlap_tokens = p[2]
    /\ tokens = <<>>
    /\ start_token = 0
    /\ chunks = <<>>
    /\ windows = <<>>
    /\ c_pc = "call"
    /\ RetrieverIdle
    /\ WorkersIdle
    /\ AnswerIdle

\* for block in blocks: the loop moves to the next block, or chunk_blocks
\* returns
NextBlock ==
    IF block_idx < Len(blocks)
    THEN /\ block_idx' = block_idx + 1
         /\ block_text' = blocks[block_idx + 1].text
         /\ c_pc' = "call"
    ELSE /\ block_idx' = block_idx
         /\ block_text' = block_text
         /\ c_pc' = "done"

\* Mutant of SkipBlock: an empty or whitespace block ends the loop (break
\* for continue).
SkipBlockBreaks ==
    /\ c_pc = "call"
    /\ Strip(block_text) = <<>>
    /\ c_pc' = "done"
    /\ UNCHANGED <<blocks, block_idx, block_text, max_tokens, overlap_tokens,
                   tokens, start_token, chunks, windows, retrVars,
                   workVars, ansVars>>

\* chunk_blocks, a block whose text is empty or whitespace: skipped
SkipBlock ==
    /\ c_pc = "call"
    /\ Strip(block_text) = <<>>
    /\ NextBlock
    /\ UNCHANGED <<blocks, max_tokens, overlap_tokens, tokens,
                   start_token, chunks, windows, retrVars, workVars, ansVars>>

\* Mutant of SingleChunk: the chunk text is stripped, as the window chunks'
\* texts are.
SingleChunkStripped ==
    /\ c_pc = "call"
    /\ Strip(block_text) # <<>>
    /\ Len(encode(block_text)) <= max_tokens
    /\ tokens' = encode(block_text)
    /\ chunks' = Append(chunks, ChunkDict(blocks[block_idx], Strip(block_text),
                                          Len(encode(block_text))))
    /\ windows' = <<[start |-> 0, end |-> Len(encode(block_text)),
                     kept |-> block_text]>>
    /\ NextBlock
    /\ UNCHANGED <<blocks, max_tokens, overlap_tokens, start_token, retrVars,
                   workVars, ansVars>>

\* _chunk_single_block, the block fits in one chunk
SingleChunk ==
    /\ c_pc = "call"
    /\ Strip(block_text) # <<>>
    /\ Len(encode(block_text)) <= max_tokens
    /\ tokens' = encode(block_text)
    /\ chunks' = Append(chunks, ChunkDict(blocks[block_idx], block_text,
                                          Len(encode(block_text))))
    /\ windows' = <<[start |-> 0, end |-> Len(encode(block_text)),
                     kept |-> block_text]>>
    /\ NextBlock
    /\ UNCHANGED <<blocks, max_tokens, overlap_tokens, start_token, retrVars,
                   workVars, ansVars>>

\* _chunk_single_block, the block needs the sliding window
BeginWindows ==
    /\ c_pc = "call"
    /\ Strip(block_text) # <<>>
    /\ Len(encode(block_text)) > max_tokens
    /\ tokens' = encode(block_text)
    /\ start_token' = 0
    /\ windows' = <<>>
    /\ c_pc' = "loop"
    /\ UNCHANGED <<blocks, block_idx, block_text, max_tokens, overlap_tokens,
                   chunks, retrVars, workVars, ansVars>>

\* Mutant of EndToken: the window is one token too long.
EndTokenOffByOne(start) == Min2(start + max_tokens + 1, Len(tokens))

\* end_token = min(start_token + max_tokens, len(tokens))
EndToken(start) == Min2(start + max_tokens, Len(tokens))

\* chunk_text of the window starting at start: decoded, and boundary-adjusted
\* when the window is not the last one
ChunkText(start) ==
    LET end_token == EndToken(start)
        decoded == decode(SubSeq(tokens, start + 1, end_token))
    IN  IF end_token < Len(tokens) THEN adjust_chunk_boundary(decoded)
        ELSE decoded

\* len(chunk_tokens): the window's tokens, or the re-encoded adjusted text
ChunkTokenCount(start) ==
    LET end_token == EndToken(start)
    IN  IF end_token < Len(tokens) THEN Len(encode(ChunkText(start)))
        ELSE end_token - start

\* Mutant of NextStart: the overlap is ignored, the next window starts where
\* this one was to end.
NextStartNoOverlap(start) == start + max_tokens

\* Mutant of NextStart: the window advances by the overlap instead of by
\* max_tokens - overlap_tokens.
NextStartByOverlap(start) == start + overlap_tokens

\* start_token = max(start_token + max_tokens - overlap_tokens, start_token + 1)
NextStart(start) == Max2(start + max_tokens - overlap_tokens, start + 1)

\* one iteration of the while loop
WindowStep ==
    /\ c_pc = "loop"
    /\ start_token < Len(tokens)
    /\ chunks' = Append(chunks, ChunkDict(blocks[block_idx],
                                          Strip(ChunkText(start_token)),
                                          ChunkTokenCount(start_token)))
    /\ windows' = Append(windows, [start |-> start_token,
                                   end |-> EndToken(start_token),
                                   kept |-> ChunkText(start_token)])
    /\ IF EndToken(start_token) >= Len(tokens)
       THEN start_token' = start_token /\ NextBlock
       ELSE /\ start_token' = NextStart(start_token)
            /\ UNCHANGED <<block_idx, block_text, c_pc>>
    /\ UNCHANGED <<blocks, max_tokens, overlap_tokens, tokens, retrVars,
                   workVars, ansVars>>

\* the while condition fails: start_token has reached len(tokens) without a
\* window that ended there (only with max_tokens < 1 or overlap_tokens < 0)
WindowsExhausted ==
    /\ c_pc = "loop"
    /\ start_token >= Len(tokens)
    /\ NextBlock
    /\ UNCHANGED <<blocks, max_tokens, overlap_tokens, tokens, start_token,
                   chunks, windows, retrVars, workVars, ansVars>>

ChunkNext == SkipBlock \/ SingleChunk \/ BeginWindows \/ WindowStep

SpecChunk == ChunkInit /\ [][ChunkNext]_vars

(***************************************************************************)
(* _chunk_single_block and chunk_blocks as functions of their arguments.   *)
(***************************************************************************)
\* the chunks of the windows from start on
RECURSIVE window_chunks(_, _, _, _, _)
window_chunks(block, toks, start, mx, ov) ==
    IF start >= Len(toks) THEN <<>>
    ELSE
      LET end_token == Min2(start + mx, Len(toks))
          decoded == decode(SubSeq(toks, start + 1, end_token))
          last == end_token >= Len(toks)
          chunk_text == IF last THEN decoded ELSE adjust_chunk_boundary(decoded)
          token_count == IF last THEN end_token - start
                         ELSE Len(encode(chunk_text))
      IN  <<ChunkDict(block, Strip(chunk_text), token_count)>>
            \o (IF last THEN <<>>
                ELSE window_chunks(block, toks,
                                   Max2(start + mx - ov, start + 1), mx, ov))

chunk_single_block(block, mx, ov) ==
    LET toks == encode(block.text)
    IN  IF Len(toks) <= mx
        THEN <<ChunkDict(block, block.text, Len(toks))>>
        ELSE window_chunks(block, toks, 0, mx, ov)

\* chunks.extend(block_chunks) over a list of blocks none of which is skipped
RECURSIVE extend_chunks(_, _, _)
extend_chunks(bs, mx, ov) ==
    IF bs = <<>> THEN <<>>
    ELSE chunk_single_block(Head(bs), mx, ov) \o extend_chunks(Tail(bs), mx, ov)

(***************************************************************************)
(* chunk_blocks called with several blocks and with any parameters, the    *)
(* ones outside 0 <= overlap_tokens < max_tokens included.                 *)
(***************************************************************************)
BlockTexts ==
    {<<>>, <<NL>>, <<" ", NL>>, <<"a">>, <<"a", "a", "a">>,
     <<"a", ".", NL, "-", "a">>}

BlockLists ==
    UNION {[1..n -> {Block(t, m) : t \in BlockTexts, m \in BlockMetas}] :
               n \in 1..MaxBlocks}

AnyParams == (0..MaxTokens) \X (-1..MaxTokens)

BlocksInit ==
    /\ blocks \in BlockLists
    /\ block_idx = 1
    /\ block_text = blocks[1].text
    /\ \E p \in AnyParams : max_tokens = p[1] /\ overlap_tokens = p[2]
    /\ tokens = <<>>
    /\ start_token = 0
    /\ chunks = <<>>
    /\ windows = <<>>
    /\ c_pc = "call"
    /\ RetrieverIdle
    /\ WorkersIdle
    /\ AnswerIdle

BlocksNext ==
    SkipBlock \/ SingleChunk \/ BeginWindows \/ WindowStep \/ WindowsExhausted

SpecBlocks == BlocksInit /\ [][BlocksNext]_vars

(***************************************************************************)
(* document_retriever.py: strings, tokenization, sorting.                  *)
(***************************************************************************)
\* str.lower()
Lower(s) ==
    [i \in 1..Len(s) |->
        CASE s[i] = "A" -> "a" [] s[i] = "B" -> "b" [] OTHER -> s[i]]

WordChars == {"a", "b", "c"}

\* re.findall(r'\b\w+\b', text): the maximal runs of word characters
RECURSIVE FindWords(_, _)
FindWords(s, cur) ==
    IF s = <<>> THEN (IF cur = <<>> THEN <<>> ELSE <<cur>>)
    ELSE IF Head(s) \in WordChars THEN FindWords(Tail(s), Append(cur, Head(s)))
    ELSE (IF cur = <<>> THEN <<>> ELSE <<cur>>) \o FindWords(Tail(s), <<>>)

\* _tokenize
tokenize(text) == FindWords(Lower(text), <<>>)

\* needle in haystack (substring test on str)
Contains(haystack, needle) ==
    \E i \in 1..(Len(haystack) - Len(needle) + 1) :
        SubSeq(haystack, i, i + Len(needle) - 1) = needle

\* number of positions of seq s holding x (Counter(s)[x])
RECURSIVE Count(_, _)
Count(s, x) ==
    IF s = <<>> THEN 0
    ELSE (IF Head(s) = x THEN 1 ELSE 0) + Count(Tail(s), x)

Range(s) == {s[i] : i \in 1..Len(s)}

RECURSIVE SumSeq(_)
SumSeq(s) == IF s = <<>> THEN 0 ELSE Head(s) + SumSeq(Tail(s))

\* x placed into a descending list behind every element whose key is >= its own
RECURSIVE InsertDesc(_, _, _)
InsertDesc(x, sorted, key) ==
    IF sorted = <<>> THEN <<x>>
    ELSE IF Head(sorted)[key] >= x[key]
         THEN <<Head(sorted)>> \o InsertDesc(x, Tail(sorted), key)
         ELSE <<x>> \o sorted

RECURSIVE SortInto(_, _, _)
SortInto(s, acc, key) ==
    IF s = <<>> THEN acc
    ELSE SortInto(Tail(s), InsertDesc(Head(s), acc, key), key)

\* list.sort(key=lambda x: x.<key>, reverse=True): descending, and stable
\* (elements with equal keys keep their order)
SortDesc(s, key) == SortInto(s, <<>>, key)

\* s[:n] for n >= 0
Take(s, n) == SubSeq(s, 1, Min2(n, Len(s)))

(***************************************************************************)
(* _calculate_bm25_scores.  k1 = 1.5 and b = 0.75 are folded into the      *)
(* rational 20*tf*S / (8*tf*S + 3*S + 9*n*N), S the sum of the n_tokens    *)
(* and N the number of candidates, which equals                            *)
(* tf*(k1+1) / (tf + k1*(1 - b + b*n/avg_doc_length)).                     *)
(* bm25_score is kept in thousandths.                                      *)
(***************************************************************************)
\* 1000 * ln(n), rounded, for the odd n the idf can need
LnMilli(n) ==
    CASE n = 1 -> 0 [] n = 3 -> 1099 [] n = 5 -> 1609
      [] n = 7 -> 1946 [] n = 9 -> 2197 [] n = 11 -> 2398
      [] n = 13 -> 2565 [] n = 15 -> 2708 [] n = 17 -> 2833
      [] n = 19 -> 2944 [] n = 21 -> 3045 [] n = 23 -> 3135

\* term_doc_freq[term]: incremented once per candidate containing the term
\* and per occurrence of the term in query_terms
TermDocFreq(query_terms, cands, term) ==
    Count(query_terms, term)
      * Cardinality({i \in 1..Len(cands) : term \in Range(tokenize(cands[i].text))})

\* Mutant of Idf: the logarithm of denominator / numerator.
IdfInverted(n, df) ==
    IF 2 * n - 2 * df + 1 > 0
    THEN LnMilli(2 * df + 1) - LnMilli(2 * n - 2 * df + 1)
    ELSE 0

\* idf: log(numerator / denominator) with numerator = N - df + 0.5 and
\* denominator = df + 0.5, or 0.0 when the numerator is not positive
Idf(n, df) ==
    IF 2 * n - 2 * df + 1 > 0
    THEN LnMilli(2 * n - 2 * df + 1) - LnMilli(2 * df + 1)
    ELSE 0

\* sum(doc_lengths)
TotalLength(cands) == SumSeq([i \in 1..Len(cands) |-> cands[i].n_tokens])

\* the score one query term adds to one candidate
TermScore(query_terms, cands, chunk, term) ==
    LET tf == Count(tokenize(chunk.text), term)
        df == TermDocFreq(query_terms, cands, term)
        S  == TotalLength(cands)
        N  == Len(cands)
    IN  IF tf = 0 THEN 0
        ELSE (Idf(N, df) * 20 * tf * S)
                 \div (8 * tf * S + 3 * S + 9 * chunk.n_tokens * N)

\* Mutant of Bm25Score: the max(0.0, ...) clamp is missing.
Bm25ScoreUnclamped(query_terms, cands, chunk) ==
    IF query_terms = <<>> THEN 0
    ELSE SumSeq([j \in 1..Len(query_terms) |->
                     TermScore(query_terms, cands, chunk, query_terms[j])])
             \div Len(query_terms)

\* chunk.bm25_score = max(0.0, bm25_score / len(query_terms)) if query_terms else 0.0
Bm25Score(query_terms, cands, chunk) ==
    IF query_terms = <<>> THEN 0
    ELSE Max2(0, SumSeq([j \in 1..Len(query_terms) |->
                            TermScore(query_terms, cands, chunk, query_terms[j])])
                    \div Len(query_terms))

\* chunk.n_tokens / avg_doc_length divides by zero: avg_doc_length is 0.0 and
\* some query term occurs in some candidate
Bm25Raises(query_terms, cands) ==
    /\ cands # <<>>
    /\ TotalLength(cands) = 0
    /\ \E i \in 1..Len(cands) :
           Range(query_terms) \cap Range(tokenize(cands[i].text)) # {}

calculate_bm25_scores(query_terms, cands) ==
    [i \in 1..Len(cands) |->
        [cands[i] EXCEPT !.bm25_score = Bm25Score(query_terms, cands, cands[i])]]

(***************************************************************************)
(* hybrid_search.  vector_score is in hundredths, bm25_score in            *)
(* thousandths and hybrid_score in millionths, which keeps the weights 0.7 *)
(* and 0.3 and the boosts 1.2 and 1.1 exact.                               *)
(***************************************************************************)
\* query.lower() in chunk.text.lower()
PhraseMatch(q, chunk) == Contains(Lower(chunk.text), Lower(q))

\* any(term in chunk.doc_title.lower() for term in query_terms)
TitleMatch(q, chunk) ==
    \E t \in Range(tokenize(Lower(q))) : Contains(Lower(chunk.doc_title), t)

\* (0.7 * vector_score) + (0.3 * bm25_score)
WeightedScore(chunk) == (70 * chunk.vector_score + 3 * chunk.bm25_score) * 100

PhraseBoost(h) == (h * 12) \div 10
TitleBoost(h) == (h * 11) \div 10

\* Mutant of HybridScore: the title boost replaces the phrase boost instead
\* of multiplying with it.
HybridScoreOneBoost(q, chunk) ==
    IF TitleMatch(q, chunk) THEN TitleBoost(WeightedScore(chunk))
    ELSE IF PhraseMatch(q, chunk) THEN PhraseBoost(WeightedScore(chunk))
    ELSE WeightedScore(chunk)

HybridScore(q, chunk) ==
    LET h0 == WeightedScore(chunk)
        h1 == IF PhraseMatch(q, chunk) THEN PhraseBoost(h0) ELSE h0
    IN  IF TitleMatch(q, chunk) THEN TitleBoost(h1) ELSE h1

\* Mutant of HybridScored: the hybrid score is also written over the
\* candidate's vector_score.
HybridScoredOverVector(q, cands) ==
    LET scored == calculate_bm25_scores(tokenize(Lower(q)), cands)
    IN  [i \in 1..Len(scored) |->
            [scored[i] EXCEPT !.hybrid_score = HybridScore(q, scored[i]),
                              !.vector_score = HybridScore(q, scored[i]) \div 10000]]

\* the candidates after the scoring loop, before the sort
HybridScored(q, cands) ==
    LET scored == calculate_bm25_scores(tokenize(Lower(q)), cands)
    IN  [i \in 1..Len(scored) |->
            [scored[i] EXCEPT !.hybrid_score = HybridScore(q, scored[i])]]

\* Mutant of HybridOrder: ascending instead of descending.
HybridOrderAscending(cands) ==
    LET d == SortDesc(cands, "hybrid_score")
    IN  [i \in 1..Len(d) |-> d[Len(d) + 1 - i]]

\* candidates.sort(key=lambda x: x.hybrid_score, reverse=True)
HybridOrder(cands) == SortDesc(cands, "hybrid_score")

hybrid_search(q, cands) == HybridOrder(HybridScored(q, cands))

(***************************************************************************)
(* rerank_candidates.  scores maps a passage text to the cross-encoder's   *)
(* score for the pair (query, text), in thousandths.                       *)
(***************************************************************************)
\* Mutant of RerankSlice: one passage too many.
RerankSliceOneMore(cands, top_k) == Take(cands, top_k + 1)

\* candidates[:top_k]
RerankSlice(cands, top_k) == Take(cands, top_k)

rerank_candidates(cands, top_k, scores) ==
    IF cands = <<>> THEN <<>>
    ELSE RerankSlice(
             SortDesc([i \in 1..Len(cands) |->
                          [cands[i] EXCEPT !.rerank_score = scores[cands[i].text]]],
                      "rerank_score"),
             top_k)

(***************************************************************************)
(* The stored chunks.  A chunk_id is the hash of the chunk text, so an id  *)
(* determines text, title and token count; what a search returns for it    *)
(* (the folder, the similarity) is data of the run.                        *)
(***************************************************************************)
Folders == {"F1", "F2"}
FolderLists == {<<"F1">>, <<"F2">>, <<"F1", "F2">>, <<"F2", "F1">>}
ChunkIds == {"abc", "xyz"}
Similarities == {30, 70}

CorpusText(id) == IF id = "abc" THEN <<"a", " ", "b">> ELSE <<"b">>
CorpusTitle(id) == IF id = "abc" THEN <<"a", "b">> ELSE <<"c">>
CorpusTokens(id) == IF id = "abc" THEN 2 ELSE 1

Items == [chunk_id : ChunkIds, similarity : Similarities]
ItemLists == UNION {[1..n -> Items] : n \in 0..MaxItems}

\* DocumentChunk(...): the score fields not given default to 0.0
DocumentChunk(id, folder, score) ==
    [chunk_id |-> id, doc_title |-> CorpusTitle(id), folder |-> folder,
     text |-> CorpusText(id), n_tokens |-> CorpusTokens(id),
     vector_score |-> score, bm25_score |-> 0, hybrid_score |-> 0,
     rerank_score |-> 0]

\* vector_search_with_filter, the rows of one folder's match_documents_by_folder
\* response converted to DocumentChunk objects
RpcCandidates(folder) ==
    [i \in 1..Len(store[folder]) |->
        DocumentChunk(store[folder][i].chunk_id, folder,
                      store[folder][i].similarity)]

\* str.split(): the whitespace-separated words
StrSplit(s) == FindWords(s, <<>>)

\* _fallback_local_search, the similarity of one item: the cosine similarity
\* plus (overlap / len(query_words)) * 0.05 (none of the phrase boosts for
\* 'voting rights', 'section 5' or 'bylaws' can apply to these texts)
LocalSimilarity(q, item) ==
    LET query_words == Range(StrSplit(Lower(q)))
        text_words == Range(StrSplit(Lower(CorpusText(item.chunk_id))))
        overlap == Cardinality(query_words \cap text_words)
    IN  IF overlap > 0
        THEN item.similarity + (overlap * 5) \div Cardinality(query_words)
        ELSE item.similarity

\* _fallback_local_search, the candidates of all the folders' files in order
RECURSIVE LocalCandidates(_, _)
LocalCandidates(q, fs) ==
    IF fs = <<>> THEN <<>>
    ELSE [i \in 1..Len(store[Head(fs)]) |->
             DocumentChunk(store[Head(fs)][i].chunk_id, Head(fs),
                           LocalSimilarity(q, store[Head(fs)][i]))]
         \o LocalCandidates(q, Tail(fs))

\* _fallback_local_search: sorted by vector_score, cut to k
fallback_local_search(q, fs, k) ==
    Take(SortDesc(LocalCandidates(q, fs), "vector_score"), k)

\* the seen_chunks loop: the first candidate of each chunk_id is kept
RECURSIVE UniqueCandidates(_, _)
UniqueCandidates(cands, seen) ==
    IF cands = <<>> THEN <<>>
    ELSE IF Head(cands).chunk_id \in seen
         THEN UniqueCandidates(Tail(cands), seen)
         ELSE <<Head(cands)>>
                  \o UniqueCandidates(Tail(cands), seen \cup {Head(cands).chunk_id})

(***************************************************************************)
(* retrieve_documents                                                      *)
(***************************************************************************)
PipelineQueries == {<<"a">>}

ChunkerIdle ==
    /\ blocks = <<>> /\ block_idx = 0
    /\ block_text = <<>> /\ max_tokens = 0 /\ overlap_tokens = 0
    /\ tokens = <<>> /\ start_token = 0 /\ chunks = <<>> /\ windows = <<>>
    /\ c_pc = "idle"

RetrieveInit ==
    /\ ChunkerIdle
    /\ WorkersIdle
    /\ AnswerIdle
    /\ supabase \in BOOLEAN
    /\ query \in PipelineQueries
    /\ folders \in FolderLists
    /\ store \in [Folders -> ItemLists]
    /\ k_candidates \in 1..MaxK
    /\ top_passages \in 0..MaxTopK
    /\ use_hybrid \in BOOLEAN
    /\ use_reranking \in BOOLEAN
    /\ r_pc = "vector_search"
    /\ folder_idx = 0
    /\ candidates = <<>>
    /\ top_chunks = <<>>
    /\ outcome = "running"
    /\ stages = <<>>
    /\ failed_stage = "none"
    /\ rpc_failed = {}
    /\ model_scores = <<>>

\* vector_search_with_filter without a vector store: the local search of all
\* folders is returned as it is
FallbackSearch ==
    /\ r_pc = "vector_search"
    /\ ~supabase
    /\ candidates' = fallback_local_search(query, folders, k_candidates)
    /\ stages' = Append(stages, "vector_search")
    /\ r_pc' = "hybrid"
    /\ UNCHANGED <<chunkVars, workVars, ansVars, callVars, folder_idx, top_chunks, outcome,
                   failed_stage, rpc_failed, model_scores>>

\* vector_search_with_filter with a vector store: the query is embedded and
\* the folder loop starts
EmbedQuery ==
    /\ r_pc = "vector_search"
    /\ supabase
    /\ stages' = Append(stages, "vector_search")
    /\ candidates' = <<>>
    /\ folder_idx' = 1
    /\ r_pc' = "folders"
    /\ UNCHANGED <<chunkVars, workVars, ansVars, callVars, top_chunks, outcome, failed_stage,
                   rpc_failed, model_scores>>

\* self.embedding_model.encode raises (line 134 with a vector store, line 203
\* without): neither vector_search_with_filter nor retrieve_documents catches it
EmbedRaises ==
    /\ r_pc = "vector_search"
    /\ stages' = Append(stages, "vector_search")
    /\ failed_stage' = "vector_search"
    /\ outcome' = "raised"
    /\ r_pc' = "done"
    /\ UNCHANGED <<chunkVars, workVars, ansVars, callVars, folder_idx, candidates, top_chunks,
                   rpc_failed, model_scores>>

\* one folder, the vector-store call returns
SearchFolder ==
    /\ r_pc = "folders"
    /\ folder_idx <= Len(folders)
    /\ candidates' = candidates \o RpcCandidates(folders[folder_idx])
    /\ folder_idx' = folder_idx + 1
    /\ UNCHANGED <<chunkVars, workVars, ansVars, callVars, r_pc, top_chunks, outcome, stages,
                   failed_stage, rpc_failed, model_scores>>

\* Mutant of SearchFolderLocally: the local results replace the candidates
\* collected so far.
SearchFolderLocallyDiscards ==
    /\ r_pc = "folders"
    /\ folder_idx <= Len(folders)
    /\ candidates' =
           fallback_local_search(query, <<folders[folder_idx]>>, k_candidates)
    /\ rpc_failed' = rpc_failed \cup {folders[folder_idx]}
    /\ folder_idx' = folder_idx + 1
    /\ UNCHANGED <<chunkVars, workVars, ansVars, callVars, r_pc, top_chunks, outcome, stages,
                   failed_stage, model_scores>>

\* one folder, the vector-store call raises: that folder is searched locally
SearchFolderLocally ==
    /\ r_pc = "folders"
    /\ folder_idx <= Len(folders)
    /\ candidates' = candidates
           \o fallback_local_search(query, <<folders[folder_idx]>>, k_candidates)
    /\ rpc_failed' = rpc_failed \cup {folders[folder_idx]}
    /\ folder_idx' = folder_idx + 1
    /\ UNCHANGED <<chunkVars, workVars, ansVars, callVars, r_pc, top_chunks, outcome, stages,
                   failed_stage, model_scores>>

\* duplicates removed, sorted by vector_score, cut to k
unique_candidates(cands, k) ==
    Take(SortDesc(UniqueCandidates(cands, {}), "vector_score"), k)

\* after the folder loop
MergeCandidates ==
    /\ r_pc = "folders"
    /\ folder_idx > Len(folders)
    /\ candidates' = unique_candidates(candidates, k_candidates)
    /\ r_pc' = "hybrid"
    /\ UNCHANGED <<chunkVars, workVars, ansVars, callVars, folder_idx, top_chunks, outcome,
                   stages, failed_stage, rpc_failed, model_scores>>

\* Mutant of NoCandidates: the reranker is called on the empty list before
\* the empty result is returned.
NoCandidatesRunsRerank ==
    /\ r_pc = "hybrid"
    /\ candidates = <<>>
    /\ stages' = Append(stages, "rerank")
    /\ top_chunks' = <<>>
    /\ outcome' = "returned"
    /\ r_pc' = "done"
    /\ UNCHANGED <<chunkVars, workVars, ansVars, callVars, folder_idx, candidates, failed_stage,
                   rpc_failed, model_scores>>

\* if not candidates: return []
NoCandidates ==
    /\ r_pc = "hybrid"
    /\ candidates = <<>>
    /\ top_chunks' = <<>>
    /\ outcome' = "returned"
    /\ r_pc' = "done"
    /\ UNCHANGED <<chunkVars, workVars, ansVars, callVars, folder_idx, candidates, stages,
                   failed_stage, rpc_failed, model_scores>>

\* if use_hybrid: candidates = self.hybrid_search(query, candidates)
HybridStage ==
    /\ r_pc = "hybrid"
    /\ candidates # <<>>
    /\ use_hybrid
    /\ ~Bm25Raises(tokenize(Lower(query)), candidates)
    /\ candidates' = hybrid_search(query, candidates)
    /\ stages' = Append(stages, "hybrid")
    /\ r_pc' = "rerank"
    /\ UNCHANGED <<chunkVars, workVars, ansVars, callVars, folder_idx, top_chunks, outcome,
                   failed_stage, rpc_failed, model_scores>>

\* hybrid_search raises ZeroDivisionError; nothing in retrieve_documents
\* catches it
HybridRaises ==
    /\ r_pc = "hybrid"
    /\ candidates # <<>>
    /\ use_hybrid
    /\ Bm25Raises(tokenize(Lower(query)), candidates)
    /\ stages' = Append(stages, "hybrid")
    /\ failed_stage' = "hybrid"
    /\ outcome' = "raised"
    /\ r_pc' = "done"
    /\ UNCHANGED <<chunkVars, workVars, ansVars, callVars, folder_idx, candidates, top_chunks,
                   rpc_failed, model_scores>>

\* Mutant of HybridDisabled: hybrid_search runs although use_hybrid is False.
HybridDisabledRunsHybrid ==
    /\ r_pc = "hybrid"
    /\ candidates # <<>>
    /\ ~use_hybrid
    /\ candidates' = hybrid_search(query, candidates)
    /\ stages' = Append(stages, "hybrid")
    /\ r_pc' = "rerank"
    /\ UNCHANGED <<chunkVars, workVars, ansVars, callVars, folder_idx, top_chunks, outcome,
                   failed_stage, rpc_failed, model_scores>>

\* use_hybrid is False
HybridDisabled ==
    /\ r_pc = "hybrid"
    /\ candidates # <<>>
    /\ ~use_hybrid
    /\ r_pc' = "rerank"
    /\ UNCHANGED <<chunkVars, workVars, ansVars, callVars, folder_idx, candidates, top_chunks,
                   outcome, stages, failed_stage, rpc_failed, model_scores>>

RerankScores == {-500, 900}

\* if use_reranking: top_chunks = self.rerank_candidates(...), the model
\* returning a score per pair
RerankStage ==
    /\ r_pc = "rerank"
    /\ use_reranking
    /\ \E scores \in [{candidates[i].text : i \in 1..Len(candidates)} -> RerankScores] :
           /\ top_chunks' = rerank_candidates(candidates, top_passages, scores)
           /\ model_scores' = scores
    /\ stages' = Append(stages, "rerank")
    /\ outcome' = "returned"
    /\ r_pc' = "done"
    /\ UNCHANGED <<chunkVars, workVars, ansVars, callVars, folder_idx, candidates, failed_stage,
                   rpc_failed>>

\* self.rerank_model.predict raises; nothing in rerank_candidates or
\* retrieve_documents catches it
RerankRaises ==
    /\ r_pc = "rerank"
    /\ use_reranking
    /\ stages' = Append(stages, "rerank")
    /\ failed_stage' = "rerank"
    /\ outcome' = "raised"
    /\ r_pc' = "done"
    /\ UNCHANGED <<chunkVars, workVars, ansVars, callVars, folder_idx, candidates, top_chunks,
                   rpc_failed, model_scores>>

\* Mutant of TopSlice: one passage too many.
TopSliceOneMore(cands) == Take(cands, top_passages + 1)

\* candidates[:top_passages]
TopSlice(cands) == Take(cands, top_passages)

\* use_reranking is False: sort by hybrid_score or vector_score, cut to
\* top_passages
SortAndSlice ==
    /\ r_pc = "rerank"
    /\ ~use_reranking
    /\ top_chunks' = TopSlice(SortDesc(candidates,
                                       IF use_hybrid THEN "hybrid_score"
                                       ELSE "vector_score"))
    /\ outcome' = "returned"
    /\ r_pc' = "done"
    /\ UNCHANGED <<chunkVars, workVars, ansVars, callVars, folder_idx, candidates, stages,
                   failed_stage, rpc_failed, model_scores>>

Next ==
    \/ FallbackSearch \/ EmbedQuery \/ EmbedRaises \/ SearchFolder \/ SearchFolderLocally
    \/ MergeCandidates \/ NoCandidates
    \/ HybridStage \/ HybridDisabled
    \/ RerankStage \/ RerankRaises \/ SortAndSlice

Spec == RetrieveInit /\ [][Next]_vars

(***************************************************************************)
(* hybrid_search and rerank_candidates on candidate lists drawn from       *)
(* bounded sets, called as generate_answer has retrieve_documents call     *)
(* them (use_hybrid=True, use_reranking=True).                             *)
(***************************************************************************)
ScoreTexts == {<<"a", " ", "a">>, <<"b">>, <<"a", " ", "b">>}
ScoreQueries == {<<"a">>, <<"A", " ", "b">>, <<"a", " ", "a">>, <<>>}
ScoreIds == <<"c1", "c2", "c3", "c4", "c5">>

\* the title of the document a passage text comes from
ScoreTitle(text) ==
    CASE text = <<"a", " ", "a">> -> <<"a", "b">>
      [] text = <<"b">> -> <<"B">>
      [] OTHER -> <<"c">>

CandidateKinds == [text : ScoreTexts, vector_score : Similarities]

\* a fetched candidate; n_tokens is the word count of the text, or 0 when the
\* rows carry no n_tokens (item.get('n_tokens', 0))
ScoreCandidate(i, kind, has_n_tokens) ==
    [chunk_id |-> ScoreIds[i], doc_title |-> ScoreTitle(kind.text),
     folder |-> "F1", text |-> kind.text,
     n_tokens |-> IF has_n_tokens THEN Len(tokenize(kind.text)) ELSE 0,
     vector_score |-> kind.vector_score, bm25_score |-> 0, hybrid_score |-> 0,
     rerank_score |-> 0]

ScoreInit ==
    /\ ChunkerIdle
    /\ WorkersIdle
    /\ AnswerIdle
    /\ supabase = TRUE
    /\ query \in ScoreQueries
    /\ folders = <<>>
    /\ store = <<>>
    /\ k_candidates = MaxCand
    /\ top_passages \in 0..MaxTopK
    /\ use_hybrid = TRUE
    /\ use_reranking = TRUE
    /\ r_pc = "hybrid"
    /\ folder_idx = 0
    /\ \E n \in 1..MaxCand : \E kinds \in [1..n -> CandidateKinds] :
       \E has_n_tokens \in BOOLEAN :
           candidates = [i \in 1..n |-> ScoreCandidate(i, kinds[i], has_n_tokens)]
    /\ top_chunks = <<>>
    /\ outcome = "running"
    /\ stages = <<"vector_search">>
    /\ failed_stage = "none"
    /\ rpc_failed = {}
    /\ model_scores = <<>>

NextScore == HybridStage \/ HybridRaises \/ RerankStage \/ RerankRaises

SpecScore == ScoreInit /\ [][NextScore]_vars

(***************************************************************************)
(* preprocessing_pipeline.py: process_pending_files runs one               *)
(* process_single_file per pending file in a pool of worker processes.     *)
(* The files modelled belong to one folder, so their chunks go to the same *)
(* JSON file.  A chunk is identified by its text hash; the chunks are      *)
(* those that pass the token-range checks, and the texts behind different  *)
(* hashes are not near-duplicates of each other.                           *)
(***************************************************************************)
Workers == {"w1", "w2"}
Hashes == {"h1", "h2", "h3"}
MaxFileChunks == 2

\* validate_chunk_quality: the chunk behind h3 fails validation
ValidChunk(h) == h # "h3"

\* the chunks of one file, in order
WorkerFiles == UNION {[1..n -> Hashes] : n \in 0..MaxFileChunks}

WorkersInit ==
    /\ ChunkerIdle
    /\ RetrieverIdle
    /\ AnswerIdle
    /\ w_file \in [Workers -> WorkerFiles]
    /\ w_idx = [w \in Workers |-> 1]
    /\ w_pc = [w \in Workers |-> IF w_file[w] = <<>> THEN "done" ELSE "reserve"]
    /\ w_local = [w \in Workers |-> <<>>]
    /\ manifest = [h \in Hashes |-> "absent"]
    /\ out_file = <<>>
    /\ true_returns = [h \in Hashes |-> 0]
    /\ false_returns = [h \in Hashes |-> 0]
    /\ writes = [h \in Hashes |-> {}]

\* chunk_hash of the chunk worker w is at
CurrentHash(w) == w_file[w][w_idx[w]]

\* for ch in chunks: worker w goes to its next chunk, or has finished its file
NextChunk(w) ==
    /\ w_idx' = [w_idx EXCEPT ![w] = @ + 1]
    /\ w_pc' = [w_pc EXCEPT ![w] = IF w_idx[w] + 1 > Len(w_file[w])
                                   THEN "done" ELSE "reserve"]

\* Mutant of ReserveChunk: the INSERT replaces an existing row instead of
\* failing on the primary key, so the call returns True for a reserved hash.
ReserveChunkUnchecked ==
    \E w \in Workers :
        /\ w_pc[w] = "reserve"
        /\ manifest' = [manifest EXCEPT ![CurrentHash(w)] = "pending"]
        /\ true_returns' = [true_returns EXCEPT ![CurrentHash(w)] = @ + 1]
        /\ w_pc' = [w_pc EXCEPT ![w] = "reserved"]
        /\ UNCHANGED <<chunkVars, retrVars, ansVars, w_file, w_idx, w_local,
                       out_file, false_returns, writes>>

\* try_reserve_chunk, the INSERT succeeds (no row has this text_hash): the
\* row is committed with status 'pending' and the call returns True
ReserveChunk ==
    \E w \in Workers :
        /\ w_pc[w] = "reserve"
        /\ manifest[CurrentHash(w)] = "absent"
        /\ manifest' = [manifest EXCEPT ![CurrentHash(w)] = "pending"]
        /\ true_returns' = [true_returns EXCEPT ![CurrentHash(w)] = @ + 1]
        /\ w_pc' = [w_pc EXCEPT ![w] = "reserved"]
        /\ UNCHANGED <<chunkVars, retrVars, ansVars, w_file, w_idx, w_local,
                       out_file, false_returns, writes>>

\* try_reserve_chunk, the INSERT raises IntegrityError (text_hash is the
\* primary key): the call returns False and the chunk is skipped
ReserveRefused ==
    \E w \in Workers :
        /\ w_pc[w] = "reserve"
        /\ manifest[CurrentHash(w)] # "absent"
        /\ false_returns' = [false_returns EXCEPT ![CurrentHash(w)] = @ + 1]
        /\ NextChunk(w)
        /\ UNCHANGED <<chunkVars, retrVars, ansVars, w_file, w_local, manifest,
                       out_file, true_returns, writes>>

\* the reserved chunk fails validate_chunk_quality: its status becomes
\* 'validation_failed' and nothing is written
RejectChunk ==
    \E w \in Workers :
        /\ w_pc[w] = "reserved"
        /\ ~ValidChunk(CurrentHash(w))
        /\ manifest' = [manifest EXCEPT ![CurrentHash(w)] = "validation_failed"]
        /\ NextChunk(w)
        /\ UNCHANGED <<chunkVars, retrVars, ansVars, w_file, w_local, out_file,
                       true_returns, false_returns, writes>>

\* append_chunk_json_per_folder, chunks = json.load(f): the worker's copy of
\* the file's records ([] when the file is missing, empty or not valid JSON)
ReadFile ==
    \E w \in Workers :
        /\ w_pc[w] = "reserved"
        /\ ValidChunk(CurrentHash(w))
        /\ w_local' = [w_local EXCEPT ![w] = out_file]
        /\ w_pc' = [w_pc EXCEPT ![w] = "open"]
        /\ UNCHANGED <<chunkVars, retrVars, ansVars, w_file, w_idx, manifest,
                       out_file, true_returns, false_returns, writes>>

\* append_chunk_json_per_folder, open(out_path, "w"): the file is truncated
TruncateFile ==
    \E w \in Workers :
        /\ w_pc[w] = "open"
        /\ out_file' = <<>>
        /\ w_pc' = [w_pc EXCEPT ![w] = "dump"]
        /\ UNCHANGED <<chunkVars, retrVars, ansVars, w_file, w_idx, w_local,
                       manifest, true_returns, false_returns, writes>>

\* append_chunk_json_per_folder, json.dump(chunks, f): the worker's copy plus
\* the new record becomes the file's content
DumpFile ==
    \E w \in Workers :
        /\ w_pc[w] = "dump"
        /\ out_file' = Append(w_local[w], CurrentHash(w))
        /\ writes' = [writes EXCEPT ![CurrentHash(w)] = @ \cup {w}]
        /\ w_pc' = [w_pc EXCEPT ![w] = "mark"]
        /\ UNCHANGED <<chunkVars, retrVars, ansVars, w_file, w_idx, w_local,
                       manifest, true_returns, false_returns>>

\* update_chunk_status(MANIFEST_DB, chunk_hash, "written")
MarkWritten ==
    \E w \in Workers :
        /\ w_pc[w] = "mark"
        /\ manifest' = [manifest EXCEPT ![CurrentHash(w)] = "written"]
        /\ NextChunk(w)
        /\ UNCHANGED <<chunkVars, retrVars, ansVars, w_file, w_local, out_file,
                       true_returns, false_returns, writes>>

WorkersNext ==
    \/ ReserveChunk \/ ReserveRefused \/ RejectChunk
    \/ ReadFile \/ TruncateFile \/ DumpFile \/ MarkWritten

SpecWorkers == WorkersInit /\ [][WorkersNext]_vars

(***************************************************************************)
(* answer_generator.py: generate_answer.  The LLM's answer is a sequence   *)
(* of segments: plain text, one of the insufficient-evidence phrases, or a *)
(* citation "[doc_title] — page N — chunk_id"; the answer field of the     *)
(* response names which text it carries.                                   *)
(***************************************************************************)
MaxPassages == 3
MaxSegments == 2

AnswerIds == {"abc", "xyz", "pqr"}
CitedTitles == {<<"a">>, <<"c">>}

\* a retrieved passage, as far as citation validation reads it
Passage(id) == [chunk_id |-> id, doc_title |-> CorpusTitle(id)]

PassageLists ==
    UNION {{[i \in 1..n |-> Passage(ids[i])] : ids \in [1..n -> AnswerIds]} :
              n \in 1..MaxPassages}

Segments ==
    {[kind |-> k, doc_title |-> <<>>, chunk_id |-> ""] : k \in {"text", "phrase"}}
      \cup {[kind |-> "cite", doc_title |-> t, chunk_id |-> c] :
                t \in CitedTitles, c \in AnswerIds}

LlmTexts == UNION {[1..n -> Segments] : n \in 1..MaxSegments}

AnswerInit ==
    /\ ChunkerIdle
    /\ RetrieverIdle
    /\ WorkersIdle
    /\ passages = <<>>
    /\ raw_answer = NoAnswer
    /\ response = NoResponse
    /\ a_pc = "retrieve"

\* _is_insufficient_evidence_response: some phrase occurs in the answer
is_insufficient_evidence_response(answer) ==
    \E i \in 1..Len(answer) : answer[i].kind = "phrase"

\* re.findall(citation_pattern, answer)
found_citations(answer) ==
    LET IsCite(s) == s.kind = "cite"
    IN  SelectSeq(answer, IsCite)

\* passage_lookup[chunk_id]: of the passages with this chunk_id, the last
PassageLookup(ps, id) ==
    ps[CHOOSE i \in 1..Len(ps) :
           /\ ps[i].chunk_id = id
           /\ \A j \in (i + 1)..Len(ps) : ps[j].chunk_id # id]

\* Mutant of CitationValid: the cited title is not compared.
CitationValidAnyTitle(c, ps) ==
    \E i \in 1..Len(ps) : ps[i].chunk_id = c.chunk_id

\* chunk_id in passage_lookup and doc_title in passage.doc_title
CitationValid(c, ps) ==
    /\ \E i \in 1..Len(ps) : ps[i].chunk_id = c.chunk_id
    /\ Contains(PassageLookup(ps, c.chunk_id).doc_title, c.doc_title)

\* _extract_and_validate_citations: the citation dictionaries
extract_and_validate_citations(answer, ps) ==
    LET found == found_citations(answer)
    IN  [i \in 1..Len(found) |->
            [doc_title |-> found[i].doc_title, chunk_id |-> found[i].chunk_id,
             valid |-> CitationValid(found[i], ps)]]

\* valid_citations
ValidCitations(citations) ==
    Cardinality({i \in 1..Len(citations) : citations[i].valid})

\* _determine_confidence; citation_ratio >= 0.8 and >= 0.5 as integer
\* comparisons
determine_confidence(citations, ps) ==
    LET valid_citations == ValidCitations(citations)
    IN  IF citations = <<>> THEN "low"
        ELSE IF /\ valid_citations >= 2
                /\ 5 * valid_citations >= 4 * Len(citations)
                /\ Len(ps) >= 3
             THEN "high"
        ELSE IF valid_citations >= 1 /\ 2 * valid_citations >= Len(citations)
             THEN "medium"
        ELSE "low"

\* _create_no_evidence_response
no_evidence_response(answer) ==
    [answer |-> answer, confidence |-> "low", citations |-> <<>>,
     has_valid_citations |-> FALSE]

\* _create_error_response
error_response ==
    [answer |-> "error", confidence |-> "low", citations |-> <<>>,
     has_valid_citations |-> FALSE]

\* _post_process_answer, after the insufficient-evidence check
post_process_answer(answer, ps) ==
    LET citations == extract_and_validate_citations(answer, ps)
        has_valid_citations ==
            Len(citations) > 0 /\ ValidCitations(citations) > 0
    IN  [answer |-> IF has_valid_citations THEN "formatted"
                    ELSE "source_not_found",
         confidence |-> IF has_valid_citations
                        THEN determine_confidence(citations, ps) ELSE "low",
         citations |-> citations,
         has_valid_citations |-> has_valid_citations]

\* retrieve_documents returns passages
RetrievePassages ==
    /\ a_pc = "retrieve"
    /\ \E ps \in PassageLists : passages' = ps
    /\ a_pc' = "llm"
    /\ UNCHANGED <<chunkVars, retrVars, workVars, raw_answer, response>>

\* if not passages: return self._create_no_evidence_response(question, [])
NoPassages ==
    /\ a_pc = "retrieve"
    /\ response' = no_evidence_response("default_no_evidence")
    /\ a_pc' = "done"
    /\ UNCHANGED <<chunkVars, retrVars, workVars, passages, raw_answer>>

\* _call_llm returns None (the client raised) or an empty string:
\* if not raw_answer: return self._create_error_response(...)
LlmFails ==
    /\ a_pc = "llm"
    /\ \E raised \in BOOLEAN :
           raw_answer' = [raised |-> raised, segments |-> <<>>]
    /\ response' = error_response
    /\ a_pc' = "done"
    /\ UNCHANGED <<chunkVars, retrVars, workVars, passages>>

\* _call_llm returns a non-empty answer
LlmAnswers ==
    /\ a_pc = "llm"
    /\ \E text \in LlmTexts :
           raw_answer' = [raised |-> FALSE, segments |-> text]
    /\ a_pc' = "post"
    /\ UNCHANGED <<chunkVars, retrVars, workVars, passages, response>>

\* _post_process_answer, the answer is an insufficient-evidence statement:
\* it is returned as the LLM wrote it
InsufficientEvidence ==
    /\ a_pc = "post"
    /\ is_insufficient_evidence_response(raw_answer.segments)
    /\ response' = no_evidence_response("raw")
    /\ a_pc' = "done"
    /\ UNCHANGED <<chunkVars, retrVars, workVars, passages, raw_answer>>

\* _post_process_answer, citations extracted and validated
PostProcess ==
    /\ a_pc = "post"
    /\ ~is_insufficient_evidence_response(raw_answer.segments)
    /\ response' = post_process_answer(raw_answer.segments, passages)
    /\ a_pc' = "done"
    /\ UNCHANGED <<chunkVars, retrVars, workVars, passages, raw_answer>>

AnswerNext ==
    \/ RetrievePassages \/ NoPassages \/ LlmFails \/ LlmAnswers
    \/ InsufficientEvidence \/ PostProcess

SpecAnswer == AnswerInit /\ [][AnswerNext]_vars

(***************************************************************************)
(* Properties of the chunker (checked under SpecChunk).                    *)
(***************************************************************************)
\* Number of characters in front of the token with 0-based index k.
CharOffset(k) == Len(decode(SubSeq(tokens, 1, k)))

\* The decoded text of a recorded window, before boundary adjustment.
WindowText(w) == decode(SubSeq(tokens, w.start + 1, w.end))

\* Character c (1-based) of the block text lies inside the text kept for
\* some emitted chunk.
Covered(c) ==
    \E k \in 1..Len(windows) :
        /\ CharOffset(windows[k].start) < c
        /\ c <= CharOffset(windows[k].start) + Len(windows[k].kept)

CeilDiv(a, b) == (a + b - 1) \div b

\* C1: chunk coverage: once a block has been chunked, every character of
\* the block text that is not whitespace lies in the text of at least one
\* emitted chunk, so the chunks minus their overlaps reconstruct the block
\* without a gap, boundary-adjusted chunks included.
C1_ChunkCoverage ==
    (c_pc = "done" /\ chunks # <<>>) =>
        \A c \in 1..Len(block_text) :
            block_text[c] \notin Whitespace => Covered(c)

C6_NoStall ==
    /\ c_pc = "loop" => start_token < Len(tokens)
    /\ \A k \in 1..(Len(windows) - 1) : windows[k + 1].start > windows[k].start
    /\ (c_pc = "loop" /\ windows # <<>>) =>
           start_token > windows[Len(windows)].start
    /\ c_pc \in {"loop", "done"} =>
           Len(chunks) <= CeilDiv(Len(tokens), max_tokens - overlap_tokens) + 1

\* C6 witness: the slowest advance (overlap_tokens = max_tokens - 1 > 0) on a
\* block that needed at least three windows, finished.
C6_Witness ==
    /\ c_pc = "done"
    /\ overlap_tokens = max_tokens - 1
    /\ overlap_tokens > 0
    /\ Len(chunks) >= 3

\* C17: every chunk emitted by chunk_blocks has non-empty text.
C17_NonEmptyText ==
    \A k \in 1..Len(chunks) : chunks[k].text # <<>>

\* C18: a block that chunk_blocks hands to _chunk_single_block (its text is
\* not empty or whitespace) and whose token length is <= max_tokens yields
\* exactly one chunk: the block text unchanged, token_count the block's token
\* length, page_start, page_end and heading_path those of the block.
C18_SingleChunkUnchanged ==
    (/\ c_pc = "done"
     /\ Strip(blocks[1].text) # <<>>
     /\ Len(encode(blocks[1].text)) <= max_tokens) =>
        chunks = <<[text |-> blocks[1].text,
                    token_count |-> Len(encode(blocks[1].text)),
                    page_start |-> blocks[1].page_start,
                    page_end |-> blocks[1].page_end,
                    heading_path |-> blocks[1].heading_path]>>

\* C18 witness: a block of exactly max_tokens tokens that starts with a
\* newline and carries a heading path was chunked into one chunk.
C18_Witness ==
    /\ c_pc = "done"
    /\ Len(chunks) = 1
    /\ Len(tokens) = max_tokens
    /\ max_tokens >= 2
    /\ blocks[1].text[1] = NL
    /\ blocks[1].heading_path = <<"H">>

(***************************************************************************)
(* Properties of chunk_blocks on block lists and on any parameters         *)
(* (checked under SpecBlocks).                                             *)
(***************************************************************************)
\* C14: chunk_blocks called with overlap_tokens >= max_tokens,
\* overlap_tokens < 0 or max_tokens < 1 emits no chunk and does not return.
C14_InvalidParameterRejected ==
    ~(0 <= overlap_tokens /\ overlap_tokens < max_tokens /\ max_tokens >= 1) =>
        (chunks = <<>> /\ c_pc # "done")

\* The blocks whose text is not empty or whitespace, in order.
NonBlank(bs) == SelectSeq(bs, LAMBDA b : Strip(b.text) # <<>>)

\* C19: a block whose text is empty or whitespace contributes no chunk: at
\* every block boundary and at the return, the chunks are those of the
\* non-blank blocks processed so far, as if the blank ones were absent.
C19_BlankBlocksSkipped ==
    /\ c_pc = "call" =>
           chunks = extend_chunks(NonBlank(SubSeq(blocks, 1, block_idx - 1)),
                                  max_tokens, overlap_tokens)
    /\ c_pc = "done" =>
           chunks = extend_chunks(NonBlank(blocks), max_tokens, overlap_tokens)

\* C19 witness: a whitespace block in front of a block that needed several
\* windows, under valid parameters; the call has returned.
C19_Witness ==
    /\ c_pc = "done"
    /\ 0 <= overlap_tokens /\ overlap_tokens < max_tokens
    /\ Len(blocks) = 2
    /\ blocks[1].text # <<>> /\ Strip(blocks[1].text) = <<>>
    /\ Len(chunks) >= 2

(***************************************************************************)
(* Properties of vector_search_with_filter (checked under Spec).           *)
(***************************************************************************)
\* Everything the per-folder searches of this call returned, in folder order:
\* the vector store's rows, or the local search's for a folder whose call raised.
RECURSIVE Collected(_)
Collected(fs) ==
    IF fs = <<>> THEN <<>>
    ELSE (IF Head(fs) \in rpc_failed
          THEN fallback_local_search(query, <<Head(fs)>>, k_candidates)
          ELSE RpcCandidates(Head(fs)))
         \o Collected(Tail(fs))

\* C2: dedup invariant: the candidate list vector_search_with_filter returns,
\* with or without a vector store, never holds two candidates with the same
\* chunk_id.
C2_DedupInvariant ==
    r_pc = "hybrid" =>
        \A i, j \in 1..Len(candidates) :
            candidates[i].chunk_id = candidates[j].chunk_id => i = j

\* C3: when several per-folder searches of one call return the same chunk_id,
\* the merged candidate keeps the highest vector_score among them.
C3_KeepsHighestScore ==
    (r_pc = "hybrid" /\ supabase) =>
        \A i \in 1..Len(candidates) :
            \A j \in 1..Len(Collected(folders)) :
                Collected(folders)[j].chunk_id = candidates[i].chunk_id =>
                    candidates[i].vector_score >= Collected(folders)[j].vector_score

\* C11: when vector search returns no candidates, neither the hybrid stage
\* nor the rerank stage (nor the rerank model) is invoked, and the call
\* returns the empty list.
C11_EmptyFetchSkipsStages ==
    /\ candidates = <<>> =>
           /\ stages \in {<<>>, <<"vector_search">>}
           /\ model_scores = <<>>
    /\ (r_pc = "done" /\ candidates = <<>> /\ failed_stage = "none") =>
           (outcome = "returned" /\ top_chunks = <<>>)

\* C11 witness: with a vector store, both stages switched on and two folders
\* searched, nothing was found and the call has returned.
C11_Witness ==
    /\ r_pc = "done" /\ outcome = "returned"
    /\ supabase /\ use_hybrid /\ use_reranking
    /\ Len(folders) = 2
    /\ candidates = <<>>

\* C12: when the fetch stage fails (the query embedding raises), the call
\* returns the empty list instead of raising.
C12_FetchFailureReturnsEmpty ==
    failed_stage = "vector_search" => (outcome = "returned" /\ top_chunks = <<>>)

\* The (chunk_id, vector_score) pairs of a candidate list.
MergedSet(cands) ==
    {<<cands[i].chunk_id, cands[i].vector_score>> : i \in 1..Len(cands)}

Reverse(s) == [i \in 1..Len(s) |-> s[Len(s) + 1 - i]]

\* C13: the merged candidate set (the chunk_ids and the vector_score kept
\* for each) is the one the same per-folder results give when they are
\* processed in the opposite order.
C13_MergeOrderIndependent ==
    (r_pc = "hybrid" /\ supabase) =>
        MergedSet(candidates)
            = MergedSet(unique_candidates(Collected(Reverse(folders)),
                                          k_candidates))

\* C15: with reranking disabled the call returns min(top_passages,
\* len(candidates)) of the fetched candidates, never more than top_passages,
\* in descending order of hybrid_score (hybrid scoring on) or vector_score
\* (off), and every candidate that scores above the last returned one is
\* returned.
C15_NoRerankTopSlice ==
    (r_pc = "done" /\ outcome = "returned" /\ ~use_reranking
        /\ candidates # <<>>) =>
        LET key == IF use_hybrid THEN "hybrid_score" ELSE "vector_score"
            n == Len(top_chunks)
        IN  /\ n = Min2(top_passages, Len(candidates))
            /\ n <= top_passages
            /\ \A i \in 1..n :
                   Count(top_chunks, top_chunks[i]) <= Count(candidates, top_chunks[i])
            /\ \A i \in 1..(n - 1) : top_chunks[i][key] >= top_chunks[i + 1][key]
            /\ \A c \in 1..Len(candidates) :
                   (n > 0 /\ candidates[c][key] > top_chunks[n][key]) =>
                       Count(top_chunks, candidates[c])
                           = Count(candidates, candidates[c])

\* C15 witness: two candidates were fetched and hybrid-scored, reranking is
\* off, and the call returned the better one only.
C15_Witness ==
    /\ r_pc = "done" /\ outcome = "returned"
    /\ ~use_reranking /\ use_hybrid
    /\ Len(candidates) = 2 /\ top_passages = 1
    /\ Len(top_chunks) = 1
    /\ candidates[1].hybrid_score > candidates[2].hybrid_score

(***************************************************************************)
(* Properties of hybrid_search, rerank_candidates and the stages of        *)
(* retrieve_documents that call them (checked under SpecScore).            *)
(***************************************************************************)
\* The position a candidate had in the list handed to hybrid_search.
InputPos(chunk) == CHOOSE i \in 1..Len(ScoreIds) : ScoreIds[i] = chunk.chunk_id

\* The index of chunk_id id in the candidate list.
CandidatePos(id) == CHOOSE i \in 1..Len(candidates) : candidates[i].chunk_id = id

\* C4: graceful degradation: when the hybrid or the rerank stage raises,
\* retrieve_documents still returns, and returns the candidates as the last
\* completed stage ordered them.
C4_GracefulDegradation ==
    failed_stage # "none" => (outcome = "returned" /\ top_chunks = candidates)

\* C7: rerank_candidates returns exactly min(top_k, len(candidates))
\* candidates, each carrying the model's score for its text, in descending
\* order of rerank_score with equal scores in input order, and no candidate
\* left out ranks before a returned one.
C7_RerankTopK ==
    (r_pc = "done" /\ outcome = "returned") =>
        /\ Len(top_chunks) = Min2(top_passages, Len(candidates))
        /\ \A i \in 1..Len(top_chunks) :
              /\ top_chunks[i].rerank_score = model_scores[top_chunks[i].text]
              /\ top_chunks[i] = [candidates[CandidatePos(top_chunks[i].chunk_id)]
                                    EXCEPT !.rerank_score = top_chunks[i].rerank_score]
        /\ \A i, j \in 1..Len(top_chunks) :
              i < j =>
                \/ top_chunks[i].rerank_score > top_chunks[j].rerank_score
                \/ /\ top_chunks[i].rerank_score = top_chunks[j].rerank_score
                   /\ CandidatePos(top_chunks[i].chunk_id)
                        < CandidatePos(top_chunks[j].chunk_id)
        /\ \A c \in 1..Len(candidates) :
              (\A i \in 1..Len(top_chunks) :
                   top_chunks[i].chunk_id # candidates[c].chunk_id) =>
                  \A i \in 1..Len(top_chunks) :
                      \/ top_chunks[i].rerank_score > model_scores[candidates[c].text]
                      \/ /\ top_chunks[i].rerank_score = model_scores[candidates[c].text]
                         /\ CandidatePos(top_chunks[i].chunk_id) < c

\* C7 witness: three candidates reranked to the top two, two of them with the
\* same rerank_score, and the returned order differs from the input order.
C7_Witness ==
    /\ r_pc = "done" /\ outcome = "returned"
    /\ Len(candidates) = 3 /\ top_passages = 2 /\ Len(top_chunks) = 2
    /\ top_chunks[1].rerank_score = top_chunks[2].rerank_score
    /\ top_chunks[1].chunk_id # candidates[1].chunk_id

\* C8: BM25 non-negativity: every candidate's bm25_score is >= 0, whatever
\* the candidates and the query.
C8_Bm25NonNegative ==
    \A i \in 1..Len(candidates) : candidates[i].bm25_score >= 0

\* C8 witness: scoring has run and a candidate whose summed term scores are
\* negative (its terms occur in most candidates) holds bm25_score 0.
C8_Witness ==
    /\ r_pc = "rerank"
    /\ \E i \in 1..Len(candidates) :
           /\ SumSeq([j \in 1..Len(tokenize(Lower(query))) |->
                         TermScore(tokenize(Lower(query)), candidates,
                                   candidates[i], tokenize(Lower(query))[j])]) < 0
           /\ candidates[i].bm25_score = 0

\* C9: after hybrid_search every candidate's hybrid_score is
\* 0.7*vector_score + 0.3*bm25_score, times 1.2 when the lower-cased query is
\* a substring of the lower-cased text, times 1.1 when a query token is a
\* substring of the lower-cased title (1.32 for both, 1 for neither).
C9_HybridFormula ==
    r_pc = "rerank" =>
        \A i \in 1..Len(candidates) :
            LET c == candidates[i]
                phrase == Contains(Lower(c.text), Lower(query))
                title == \E t \in Range(tokenize(query)) :
                             Contains(Lower(c.doc_title), t)
                factor == CASE phrase /\ title -> 132
                            [] phrase /\ ~title -> 120
                            [] ~phrase /\ title -> 110
                            [] OTHER -> 100
            IN  c.hybrid_score * 100
                    = (70 * c.vector_score + 3 * c.bm25_score) * 100 * factor

\* C9 witness: hybrid_search has run; one candidate got both boosts on a
\* positive bm25_score, another got none.
C9_Witness ==
    /\ r_pc = "rerank"
    /\ \E i, j \in 1..Len(candidates) :
           /\ PhraseMatch(query, candidates[i]) /\ TitleMatch(query, candidates[i])
           /\ candidates[i].bm25_score > 0
           /\ ~PhraseMatch(query, candidates[j]) /\ ~TitleMatch(query, candidates[j])

\* C10: hybrid_search returns the candidates in descending order of
\* hybrid_score, candidates of equal hybrid_score in their input order.
C10_HybridStableOrder ==
    r_pc = "rerank" =>
        \A i, j \in 1..Len(candidates) :
            i < j =>
              \/ candidates[i].hybrid_score > candidates[j].hybrid_score
              \/ /\ candidates[i].hybrid_score = candidates[j].hybrid_score
                 /\ InputPos(candidates[i]) < InputPos(candidates[j])

\* C10 witness: hybrid_search has reordered three candidates, two of which
\* have the same hybrid_score.
C10_Witness ==
    /\ r_pc = "rerank"
    /\ Len(candidates) = 3
    /\ candidates[1].chunk_id # "c1"
    /\ \E i \in 1..2 : candidates[i].hybrid_score = candidates[i + 1].hybrid_score

\* C16: a single-term query over three or more candidates with positive
\* token counts, exactly one of which contains the term: that candidate gets
\* bm25_score > 0, every other candidate exactly 0.
C16_SingleTermBm25 ==
    LET terms == tokenize(Lower(query))
        holders == {i \in 1..Len(candidates) :
                       terms[1] \in Range(tokenize(candidates[i].text))}
    IN  (/\ r_pc = "rerank"
         /\ Len(terms) = 1
         /\ Len(candidates) >= 3
         /\ \A i \in 1..Len(candidates) : candidates[i].n_tokens > 0
         /\ Cardinality(holders) = 1) =>
            \A i \in 1..Len(candidates) :
                IF i \in holders THEN candidates[i].bm25_score > 0
                ELSE candidates[i].bm25_score = 0

\* C16 witness: the query "a" scored over three candidates with token
\* counts, of which only one, holding the term twice, contains it.
C16_Witness ==
    /\ r_pc = "rerank"
    /\ query = <<"a">>
    /\ Len(candidates) = 3
    /\ \A i \in 1..3 : candidates[i].n_tokens > 0
    /\ Cardinality({i \in 1..3 : candidates[i].text = <<"a", " ", "a">>}) = 1
    /\ Cardinality({i \in 1..3 : candidates[i].text = <<"b">>}) = 2

\* C20: BM25 scoring never raises: the hybrid stage, which calls
\* _calculate_bm25_scores on the non-empty candidate list, never ends the
\* call with an exception, candidates whose token counts are all 0 included.
C20_Bm25NeverRaises == ~(outcome = "raised" /\ failed_stage = "hybrid")

\* C21: document frequency: for every query-term list, one in which a term
\* occurs more than once included, and every candidate set, the document
\* frequency used for a term is the number of candidates whose tokenized
\* text contains the term, so it never exceeds the number of candidates.
C21_DocumentFrequency ==
    LET terms == tokenize(Lower(query))
    IN  r_pc = "rerank" =>
            \A j \in 1..Len(terms) :
                /\ TermDocFreq(terms, candidates, terms[j])
                       = Cardinality({i \in 1..Len(candidates) :
                             terms[j] \in Range(tokenize(candidates[i].text))})
                /\ TermDocFreq(terms, candidates, terms[j]) <= Len(candidates)

\* C22: for every emitted chunk, token_count is the tokenizer's count of the
\* chunk's own emitted text: the text after boundary adjustment and after
\* the surrounding whitespace is stripped.
C22_TokenCountOfEmittedText ==
    \A k \in 1..Len(chunks) :
        chunks[k].token_count = Len(encode(chunks[k].text))

\* C23: a block of L > max_tokens tokens (0 <= overlap_tokens < max_tokens)
\* yields at least two chunks, the k-th window (k = 0, 1, ...) starts at
\* token offset k * max(max_tokens - overlap_tokens, 1), and the last chunk
\* is the first window whose end reaches L.
C23_WindowStarts ==
    (c_pc = "done" /\ Len(tokens) > max_tokens) =>
        /\ Len(chunks) >= 2
        /\ Len(windows) = Len(chunks)
        /\ \A k \in 1..Len(windows) :
               /\ windows[k].start
                      = (k - 1) * Max2(max_tokens - overlap_tokens, 1)
               /\ windows[k].end = Min2(windows[k].start + max_tokens, Len(tokens))
               /\ (windows[k].end >= Len(tokens)) <=> (k = Len(windows))

\* C23 witness: a block chunked into three or more windows that advance by
\* two or more tokens, the last one shorter than max_tokens.
C23_Witness ==
    /\ c_pc = "done"
    /\ Len(tokens) > max_tokens
    /\ max_tokens - overlap_tokens >= 2
    /\ Len(windows) >= 3
    /\ windows[Len(windows)].end - windows[Len(windows)].start < max_tokens

\* The decoded text of a window ends with a list-item line that does not end
\* a sentence, and the line before it is blank or ends a sentence.
ListItemCase(text) ==
    LET lines == SplitLines(text)
        n == Len(lines)
    IN  /\ n >= 2
        /\ IsBullet(Strip(lines[n]))
        /\ ~EndsSentence(Strip(lines[n]))
        /\ (Strip(lines[n - 1]) = <<>> \/ EndsSentence(Strip(lines[n - 1])))

\* The text up to and including the line before the last line.
UpToPrecedingLine(text) ==
    LET lines == SplitLines(text)
    IN  JoinLines(SubSeq(lines, 1, Len(lines) - 1))

\* Line i1 (1-based) is a break point: blank, sentence-ending, or a list item
\* whose preceding line is blank or sentence-ending.
Qualifies(lines, i1) ==
    LET line == Strip(lines[i1])
    IN  \/ line = <<>>
        \/ EndsSentence(line)
        \/ /\ IsBullet(line)
           /\ i1 > 1
           /\ (Strip(lines[i1 - 1]) = <<>> \/ EndsSentence(Strip(lines[i1 - 1])))

\* No line the backward scan examines is a break point.
NoneQualifies(text) ==
    LET lines == SplitLines(text)
        n == Len(lines)
    IN  \A i1 \in (Max2(0, n - LOOKBACK) + 2)..n : ~Qualifies(lines, i1)

EnabledStages ==
    <<"vector_search">>
        \o (IF use_hybrid THEN <<"hybrid">> ELSE <<>>)
        \o (IF use_reranking THEN <<"rerank">> ELSE <<>>)

\* C25: in every retrieve_documents call the enabled stages run in the order
\* vector search, hybrid scoring, reranking, each at most once (the stages
\* invoked so far are a prefix of the enabled stages, and all of them when
\* the call returns passages); a stage disabled by its flag is never invoked
\* and leaves its score fields at the default 0: bm25_score and hybrid_score
\* with hybrid disabled, rerank_score with reranking disabled.
C25_StageOrder ==
    /\ Len(stages) <= Len(EnabledStages)
    /\ stages = SubSeq(EnabledStages, 1, Len(stages))
    /\ (outcome = "returned" /\ candidates # <<>>) => stages = EnabledStages
    /\ ~use_hybrid =>
           /\ \A i \in 1..Len(candidates) :
                  candidates[i].bm25_score = 0 /\ candidates[i].hybrid_score = 0
           /\ \A i \in 1..Len(top_chunks) :
                  top_chunks[i].bm25_score = 0 /\ top_chunks[i].hybrid_score = 0
    /\ ~use_reranking =>
           /\ \A i \in 1..Len(candidates) : candidates[i].rerank_score = 0
           /\ \A i \in 1..Len(top_chunks) : top_chunks[i].rerank_score = 0

\* C25 witness: a call with hybrid scoring disabled and reranking enabled
\* returned a passage whose text holds the query term: only the vector search
\* and the reranker ran, and the passage has a rerank_score but no bm25_score.
C25_Witness ==
    /\ outcome = "returned"
    /\ ~use_hybrid
    /\ use_reranking
    /\ stages = <<"vector_search", "rerank">>
    /\ \E i \in 1..Len(top_chunks) :
           /\ top_chunks[i].chunk_id = "abc"
           /\ top_chunks[i].rerank_score # 0
           /\ top_chunks[i].bm25_score = 0

\* C28: in vector_search_with_filter a failure of the vector-store call for
\* one folder neither aborts the search nor discards candidates already
\* collected from other folders: during the folder loop the candidates are
\* what every folder searched so far returned (the local search's result for
\* a folder whose call failed, the vector store's for the others), the search
\* does not end with an exception after a folder's call failed, and its
\* result is the merge of what all the folders returned.
C28_FolderFailureIsolated ==
    /\ r_pc = "folders" =>
           /\ folder_idx \in 1..(Len(folders) + 1)
           /\ candidates = Collected(SubSeq(folders, 1, folder_idx - 1))
    /\ rpc_failed # {} => failed_stage # "vector_search"
    /\ (r_pc = "hybrid" /\ supabase) =>
           candidates = unique_candidates(Collected(folders), k_candidates)

\* C28 witness: two folders were searched, the vector-store call failed for
\* one of them only, and the merged result holds a candidate of each folder.
C28_Witness ==
    /\ r_pc = "hybrid"
    /\ supabase
    /\ Len(folders) = 2
    /\ Cardinality(rpc_failed) = 1
    /\ \A f \in Folders : \E i \in 1..Len(candidates) : candidates[i].folder = f

\* C29: hybrid_search returns exactly the candidates it was given (the same
\* chunk_ids, none added, dropped or duplicated) and changes only their
\* bm25_score, their hybrid_score and their order: vector_score,
\* rerank_score, text and the identifying fields of every candidate are as
\* they were.
C29_HybridFrame ==
    [][(r_pc = "hybrid" /\ r_pc' = "rerank") =>
          /\ Len(candidates') = Len(candidates)
          /\ \A i, j \in 1..Len(candidates') :
                 candidates'[i].chunk_id = candidates'[j].chunk_id => i = j
          /\ \A i \in 1..Len(candidates) : \E j \in 1..Len(candidates') :
                 candidates'[j] =
                     [candidates[i] EXCEPT
                         !.bm25_score = candidates'[j].bm25_score,
                         !.hybrid_score = candidates'[j].hybrid_score]]_vars

\* C29 witness: hybrid_search has scored three candidates with different
\* vector scores and moved the last of them to the front.
C29_Witness ==
    /\ r_pc = "rerank"
    /\ Len(candidates) = 3
    /\ candidates[1].chunk_id = "c3"
    /\ candidates[1].bm25_score > 0
    /\ \E i, j \in 1..3 : candidates[i].vector_score # candidates[j].vector_score

(***************************************************************************)
(* Properties of the worker processes (checked under SpecWorkers).         *)
(***************************************************************************)
\* Every worker has finished its file.
AllDone == \A w \in Workers : w_pc[w] = "done"

\* The number of chunks with text hash h in the workers' files: the number of
\* try_reserve_chunk calls made for h once every worker has finished.
Occurrences(h) == Count(w_file["w1"], h) + Count(w_file["w2"], h)

\* C26: when several worker processes run process_single_file concurrently
\* and write chunks for the same folder, every chunk whose manifest status
\* became 'written' is in that folder's JSON file once all workers have
\* finished: no appended chunk is lost to another worker's
\* read-modify-write.
C26_NoLostChunk ==
    AllDone =>
        \A h \in Hashes : manifest[h] = "written" => h \in Range(out_file)

\* C27: for any text_hash and any interleaving of concurrent
\* try_reserve_chunk calls, at most one call returns True and every other
\* call for that hash returns False, so a chunk with a given hash is written
\* by at most one worker.
C27_ReserveOnce ==
    \A h \in Hashes :
        /\ true_returns[h] <= 1
        /\ false_returns[h] > 0 => true_returns[h] = 1
        /\ Cardinality(writes[h]) <= 1
        /\ Count(out_file, h) <= 1
        /\ (AllDone /\ Occurrences(h) > 0) =>
               /\ true_returns[h] = 1
               /\ false_returns[h] = Occurrences(h) - 1

\* C27 witness: both workers' files hold the chunk h1, one of them twice;
\* all workers have finished, two of the three calls for h1 returned False
\* and h1 was written by one worker.
C27_Witness ==
    /\ AllDone
    /\ Occurrences("h1") = 3
    /\ false_returns["h1"] = 2
    /\ Cardinality(writes["h1"]) = 1
    /\ manifest["h1"] = "written"

(***************************************************************************)
(* Properties of generate_answer (checked under SpecAnswer).               *)
(***************************************************************************)
\* Some citation in the LLM's answer names the chunk_id of a retrieved
\* passage whose document title contains the cited title.
CitesRetrievedPassage ==
    \E i \in 1..Len(raw_answer.segments) : \E j \in 1..Len(passages) :
        /\ raw_answer.segments[i].kind = "cite"
        /\ raw_answer.segments[i].chunk_id = passages[j].chunk_id
        /\ Contains(passages[j].doc_title, raw_answer.segments[i].doc_title)

\* The confidence rules of a returned answer: 'high' or 'medium' only with
\* has_valid_citations, which holds only if the answer cites a retrieved
\* passage; 'low' in every other outcome.
ConfidenceNeedsCitation ==
    /\ response.confidence \in {"high", "medium", "low"}
    /\ response.confidence \in {"high", "medium"} => response.has_valid_citations
    /\ response.has_valid_citations => CitesRetrievedPassage
    /\ passages = <<>> => response.confidence = "low"
    /\ raw_answer.segments = <<>> => response.confidence = "low"
    /\ is_insufficient_evidence_response(raw_answer.segments) =>
           response.confidence = "low"

\* C30 as stated: an answer returned by generate_answer has confidence
\* 'high' or 'medium' only if has_valid_citations is true, i.e. a citation
\* in the answer names the chunk_id of a retrieved passage with a matching
\* document title; in every other outcome confidence is 'low', and an
\* uncited LLM answer is replaced by the 'Source not found' message.
C30_ConfidenceAndReplacement ==
    a_pc = "done" =>
        /\ ConfidenceNeedsCitation
        /\ (raw_answer.segments # <<>> /\ ~response.has_valid_citations) =>
               response.answer = "source_not_found"

\* C30 amended: the same, except that an LLM answer holding one of the
\* insufficient-evidence phrases is returned as the LLM wrote it (with
\* confidence 'low' and no citations); every other LLM answer without a
\* valid citation is replaced by the 'Source not found' message.
C30_ConfidenceAndReplacementUnlessInsufficient ==
    a_pc = "done" =>
        /\ ConfidenceNeedsCitation
        /\ (/\ raw_answer.segments # <<>>
            /\ ~response.has_valid_citations
            /\ ~is_insufficient_evidence_response(raw_answer.segments)) =>
               response.answer = "source_not_found"
        /\ is_insufficient_evidence_response(raw_answer.segments) =>
               /\ response.answer = "raw"
               /\ response.citations = <<>>
               /\ ~response.has_valid_citations

\* C30 witness: an answer with two citations, one valid and one naming a
\* retrieved passage under a title it does not have, was returned with
\* confidence 'medium'.
C30_Witness ==
    /\ a_pc = "done"
    /\ response.confidence = "medium"
    /\ response.has_valid_citations
    /\ Len(response.citations) = 2
    /\ \E i \in 1..2 :
           /\ ~response.citations[i].valid
           /\ \E j \in 1..Len(passages) :
                  passages[j].chunk_id = response.citations[i].chunk_id

====
